---- MODULE Spec2Model ----
(***************************************************************************)
(* Code Shield page (src/page.tsx): the scan form, the per-finding         *)
(* remediation sections and the best-practices form, as a state machine    *)
(* of UI events and gateway responses.                                     *)
(*                                                                         *)
(* Framework semantics the page relies on and the model follows:           *)
(*  - useState values live as long as the component instance is mounted;   *)
(*    a setState on an unmounted instance has no effect;                   *)
(*  - form.handleSubmit(onSubmit) returns an async handler: the submit     *)
(*    event snapshots the field values and starts the resolver, and        *)
(*    onSubmit runs in a later step, only when the resolver found no       *)
(*    error; the resolver settles in microtasks, so only submit events     *)
(*    dispatched in the same task can come before it, and no later input,  *)
(*    file or gateway event can;                                           *)
(*  - an Accordion of type "single" has at most one open item, and the     *)
(*    children of a closed AccordionContent are not mounted;               *)
(*  - list children keyed by index keep their instance (and state) while   *)
(*    the list stays mounted and the index stays in range.                 *)
(*                                                                         *)
(* Strings: a language and a severity are sequences of one-character       *)
(* strings.  A code text is [len, id]: its length in characters and an id  *)
(* telling apart different contents of the same length (the page only      *)
(* measures a code text, compares nothing in it and passes it on whole).   *)
(* A file is modelled by its decoded text (what FileReader.readAsText      *)
(* yields).                                                                *)
(***************************************************************************)
EXTENDS Integers, Sequences, FiniteSets, TLC

VARIABLES
    language,          \* scan form field 'language'
    code,              \* scan form field 'code'
    renderedLanguage,  \* form.getValues('language') at the page's last render
    isLoading,         \* CodeShieldPage.isLoading
    scanResult,        \* CodeShieldPage.scanResult: None or Some(findings)
    scanValidating,    \* submit events of the scan form whose resolver runs
    scanCalls,         \* handleVulnerabilityScan calls in flight, oldest first
    fileReads,         \* FileReader.readAsText reads in flight
    openItem,          \* the Accordion's open item (0: none)
    remState,          \* per finding index: RemediationSection's state
    remCalls,          \* handleRemediation calls awaited, oldest first
    bpLanguage,        \* best-practices form field 'language'
    bpIsLoading,       \* BestPracticesSection.isLoading
    bestPractices,     \* BestPracticesSection.bestPractices
    bpValidating,      \* submit events of the best-practices form
    bpCalls,           \* handleBestPractices calls in flight, oldest first
    toasts,            \* toast(): how many were published, and the latest title
    nCalls,            \* gateway invocations made so far
    shownRequest,      \* history: None or Some(request scanResult answers)
    severity,          \* input of getBadgeVariant (SpecBadge)
    badge              \* result of getBadgeVariant (SpecBadge)

vars == <<language, code, renderedLanguage, isLoading, scanResult,
          scanValidating, scanCalls, fileReads, openItem, remState, remCalls,
          bpLanguage, bpIsLoading, bestPractices, bpValidating, bpCalls,
          toasts, nCalls, shownRequest, severity, badge>>

scanVars == <<isLoading, scanResult, scanValidating, scanCalls, shownRequest>>
formVars == <<language, code, renderedLanguage, fileReads>>
remVars == <<openItem, remState, remCalls>>
bpVars == <<bpLanguage, bpIsLoading, bestPractices, bpValidating, bpCalls>>
badgeVars == <<severity, badge>>

\* null, for the string-valued states (suggestion, bestPractices)
NULL == "null"

\* a nullable structured value: None is null, Some(x) holds x
None == << >>
Some(x) == <<x>>
Get(opt) == opt[1]

----------------------------------------------------------------------------
(* Bounds of the model *)

\* gateway invocations in one behaviour
MaxCalls == 3
\* findings in one scan response
MaxFindings == 2

(* Program constants *)
MinCodeLength == 20
MaxCodeLength == 8000

----------------------------------------------------------------------------
(* Strings *)

EmptyString == << >>

\* supportedLanguages (one of the fifteen) as a character sequence
supportedLanguages == { <<"G", "o">> }

EmptyText == [len |-> 0, id |-> 0]

\* code texts: one the schema accepts, one beyond its upper limit
Texts == { EmptyText, [len |-> 20, id |-> 1], [len |-> 8001, id |-> 1] }

\* code texts on both sides of the schema's two limits (SpecScan)
BoundaryTexts == [len : {19, 20, 8000, 8001}, id : {1}]

\* String.prototype.length
Length(text) == text.len

\* Vulnerability: the two fields the page computes with (location,
\* recommendation and references are only printed)
FindingPool ==
    { [description |-> "d1", severity |-> <<"H", "i", "g", "h">>],
      [description |-> "d2", severity |-> <<"l", "o", "w">>] }

\* result.vulnerabilities of a scan response
Responses == UNION { [1..n -> FindingPool] : n \in 0..MaxFindings }

\* result.remediationSuggestions of a remediation response
Suggestions == {"fix1", "fix2"}

\* result.bestPractices of a best-practices response
Practices == {"<p>bp1</p>", "<p>bp2</p>"}

ScanCompleteTitle == "Scan Complete: No Vulnerabilities Found"
ScanFailedTitle == "Scan Failed"
RemediationFailedTitle == "Failed to get remediation"
BestPracticesFailedTitle == "Failed to get best practices"

NoTitle == "(none)"

\* toast({ title, ... }): one more notification, now the latest
Publish(published, title) ==
    [count |-> published.count + 1, last |-> title]

\* a sequence without its k-th element: an awaited call settles
Remove(seq, k) == SubSeq(seq, 1, k - 1) \o SubSeq(seq, k + 1, Len(seq))

\* a file the user may pick: larger than the schema lets a code be
Files == { [len |-> 8001, id |-> 1] }

----------------------------------------------------------------------------
(* Validation schemas *)

\* formSchema with the limits themselves refused
formSchemaExclusive(values) ==
    /\ Len(values.language) >= 1
    /\ Length(values.code) > MinCodeLength
    /\ Length(values.code) < MaxCodeLength

\* z.object({ language: min(1), code: min(20).max(8000) })
formSchema(values) ==
    /\ Len(values.language) >= 1
    /\ Length(values.code) >= MinCodeLength
    /\ Length(values.code) <= MaxCodeLength

\* bestPracticesFormSchema without its min(1)
bestPracticesFormSchemaAny(values) ==
    Len(values.language) >= 0

\* z.object({ language: min(1) })
bestPracticesFormSchema(values) ==
    Len(values.language) >= 1

----------------------------------------------------------------------------
(* Rendering *)

\* scanResult && scanResult.vulnerabilities.length > 0
HasFindings(result) == result # None /\ Len(Get(result)) > 0

\* scanResult.vulnerabilities, of the rendered results card
Findings(result) == IF HasFindings(result) THEN Get(result) ELSE << >>

\* useState(false), useState(null) of a freshly mounted RemediationSection
InitRem == [isLoading |-> FALSE, suggestion |-> NULL]

\* the finding whose RemediationSection is mounted: the open item's
Mounted(i) == i = openItem /\ i \in DOMAIN remState

\* the RemediationSections at `idxs` are unmounted: the calls they await
\* lose their instance.  Such a call can still only publish a toast, so the
\* record keeps no more of it
Unmount(calls, idxs) ==
    [k \in DOMAIN calls |->
        IF calls[k].idx \in idxs
        THEN [idx |-> calls[k].idx, live |-> FALSE, args |-> None]
        ELSE calls[k]]

\* no resolver is running: the event loop is free to take the next task
Settled == scanValidating = << >> /\ bpValidating = << >>

\* one more gateway call fits the model's bound
CanInvoke == nCalls < MaxCalls

----------------------------------------------------------------------------
(* Initial state: the page as first rendered *)

Init ==
    /\ language = EmptyString
    /\ code = EmptyText
    /\ renderedLanguage = EmptyString
    /\ isLoading = FALSE
    /\ scanResult = None
    /\ scanValidating = << >>
    /\ scanCalls = << >>
    /\ fileReads = {}
    /\ openItem = 0
    /\ remState = << >>
    /\ remCalls = << >>
    /\ bpLanguage = EmptyString
    /\ bpIsLoading = FALSE
    /\ bestPractices = NULL
    /\ bpValidating = << >>
    /\ bpCalls = << >>
    /\ toasts = [count |-> 0, last |-> NoTitle]
    /\ nCalls = 0
    /\ shownRequest = None
    /\ severity = EmptyString
    /\ badge = "none"

----------------------------------------------------------------------------
(* Scan form fields *)

\* Select onValueChange={field.onChange}: only the field's Controller is
\* certain to render again (see PageRender)
SelectLanguage(lang) ==
    /\ Settled
    /\ language' = lang
    /\ UNCHANGED <<code, renderedLanguage, fileReads>>
    /\ UNCHANGED <<scanVars, remVars, bpVars, toasts, nCalls, badgeVars>>

\* CodeShieldPage renders again for a reason the model does not track (the
\* form state or the toast store it subscribes to), reading getValues afresh
PageRender ==
    /\ Settled
    /\ renderedLanguage # language
    /\ renderedLanguage' = language
    /\ UNCHANGED <<language, code, fileReads>>
    /\ UNCHANGED <<scanVars, remVars, bpVars, toasts, nCalls, badgeVars>>

\* form.setValue('code', text) and the Textarea's onChange: 'code' is watched
\* (form.watch('code')), so the page renders again
SetCode(text) ==
    /\ code' = text
    /\ renderedLanguage' = language

\* typing in the Textarea (never disabled)
EditCode(text) ==
    /\ Settled
    /\ text # code
    /\ SetCode(text)
    /\ UNCHANGED <<language, fileReads>>
    /\ UNCHANGED <<scanVars, remVars, bpVars, toasts, nCalls, badgeVars>>

\* Clear Code: disabled={isLoading || !form.watch('code')}
ClearCode ==
    /\ Settled
    /\ ~isLoading
    /\ Length(code) # 0
    /\ SetCode(EmptyText)
    /\ UNCHANGED <<language, fileReads>>
    /\ UNCHANGED <<scanVars, remVars, bpVars, toasts, nCalls, badgeVars>>

\* handleFileChange: a file was picked (Upload File is disabled={isLoading});
\* reader.readAsText(file) starts
handleFileChange(file) ==
    /\ Settled
    /\ ~isLoading
    /\ fileReads' = fileReads \cup {file}
    /\ UNCHANGED <<language, code, renderedLanguage>>
    /\ UNCHANGED <<scanVars, remVars, bpVars, toasts, nCalls, badgeVars>>

\* ReaderOnLoad keeping out a text longer than the schema allows
ReaderOnLoadChecked(file) ==
    /\ Settled
    /\ file \in fileReads
    /\ fileReads' = fileReads \ {file}
    /\ IF Length(file) <= MaxCodeLength
       THEN SetCode(file)
       ELSE UNCHANGED <<code, renderedLanguage>>
    /\ UNCHANGED language
    /\ UNCHANGED <<scanVars, remVars, bpVars, toasts, nCalls, badgeVars>>

\* reader.onload: form.setValue('code', text)
ReaderOnLoad(file) ==
    /\ Settled
    /\ file \in fileReads
    /\ fileReads' = fileReads \ {file}
    /\ SetCode(file)
    /\ UNCHANGED language
    /\ UNCHANGED <<scanVars, remVars, bpVars, toasts, nCalls, badgeVars>>

----------------------------------------------------------------------------
(* Scan workflow *)

\* the results card leaves the tree: the Accordion and every
\* RemediationSection in it are unmounted
UnmountResults ==
    /\ openItem' = 0
    /\ remState' = << >>
    /\ remCalls' = Unmount(remCalls, DOMAIN remState)

\* the submit events one task dispatches: one, or two in a row
Dispatches == {1, 2}

\* <form onSubmit={form.handleSubmit(onSubmit)}> with the submit Button
\* disabled={isLoading}: each of the task's submit events takes the field
\* values to the resolver
SubmitScan(times) ==
    /\ Settled
    /\ ~isLoading
    /\ nCalls + times <= MaxCalls
    /\ scanValidating' =
           [n \in 1..times |-> [language |-> language, code |-> code]]
    /\ UNCHANGED <<isLoading, scanResult, scanCalls, shownRequest>>
    /\ UNCHANGED <<formVars, remVars, bpVars, toasts, nCalls, badgeVars>>

\* onSubmit(values); throws: handleVulnerabilityScan raises before it
\* returns a promise, so catch and finally run in the same step
onSubmit(values, throws) ==
    /\ nCalls' = nCalls + 1
    /\ scanResult' = None
    /\ shownRequest' = None
    /\ UnmountResults
    /\ renderedLanguage' = language
    /\ IF throws
       THEN /\ toasts' = Publish(toasts, ScanFailedTitle)
            /\ isLoading' = FALSE
            /\ UNCHANGED scanCalls
       ELSE /\ isLoading' = TRUE
            /\ scanCalls' = Append(scanCalls,
                   [language |-> values.language, code |-> values.code])
            /\ UNCHANGED toasts

\* the resolver of the oldest submit event settles: onSubmit runs when the
\* values pass formSchema, otherwise the field errors are shown and
\* nothing else happens
ScanResolved(throws) ==
    /\ scanValidating # << >>
    /\ scanValidating' = Tail(scanValidating)
    /\ IF formSchema(Head(scanValidating))
       THEN onSubmit(Head(scanValidating), throws)
       ELSE /\ throws = FALSE
            /\ UNCHANGED <<isLoading, scanResult, scanCalls, shownRequest>>
            /\ UNCHANGED <<renderedLanguage, remVars, toasts, nCalls>>
    /\ UNCHANGED <<language, code, fileReads, bpVars, badgeVars>>

\* what the keyed list of AccordionItems keeps when scanResult becomes
\* `result`: the card stays mounted only from findings to findings, and
\* then item i keeps its instance while i is in both lists
Remount(result) ==
    IF HasFindings(scanResult) /\ HasFindings(Some(result))
    THEN /\ openItem' = openItem
         /\ remState' = [i \in 1..Len(result) |->
                            IF i \in DOMAIN remState THEN remState[i]
                            ELSE InitRem]
         /\ remCalls' = Unmount(remCalls, DOMAIN remState \ (1..Len(result)))
    ELSE /\ openItem' = 0
         /\ remState' = [i \in 1..Len(result) |-> InitRem]
         /\ remCalls' = Unmount(remCalls, DOMAIN remState)

\* ScanCompleteToast with the test of the length left out
ScanCompleteToastAlways(result) ==
    Publish(toasts, ScanCompleteTitle)

\* if (result.vulnerabilities.length === 0) { toast({ ... }) }
ScanCompleteToast(result) ==
    IF Len(result) = 0 THEN Publish(toasts, ScanCompleteTitle) ELSE toasts

\* await handleVulnerabilityScan(values) resolves with `result`
ScanSuccess(k, result) ==
    /\ Settled
    /\ k \in DOMAIN scanCalls
    /\ scanCalls' = Remove(scanCalls, k)
    /\ toasts' = ScanCompleteToast(result)
    /\ scanResult' = Some(result)
    /\ shownRequest' = Some(scanCalls[k])
    /\ Remount(result)
    /\ isLoading' = FALSE
    /\ renderedLanguage' = language
    /\ UNCHANGED <<language, code, fileReads, scanValidating>>
    /\ UNCHANGED <<bpVars, nCalls, badgeVars>>

\* ScanFailure with setIsLoading(false) after the try block, not in finally
ScanFailureNoFinally(k) ==
    /\ Settled
    /\ k \in DOMAIN scanCalls
    /\ scanCalls' = Remove(scanCalls, k)
    /\ toasts' = Publish(toasts, ScanFailedTitle)
    /\ renderedLanguage' = language
    /\ UNCHANGED <<language, code, fileReads, scanValidating>>
    /\ UNCHANGED <<isLoading, scanResult, shownRequest>>
    /\ UNCHANGED <<remVars, bpVars, nCalls, badgeVars>>

\* await handleVulnerabilityScan(values) rejects: catch, then finally
ScanFailure(k) ==
    /\ Settled
    /\ k \in DOMAIN scanCalls
    /\ scanCalls' = Remove(scanCalls, k)
    /\ toasts' = Publish(toasts, ScanFailedTitle)
    /\ isLoading' = FALSE
    /\ renderedLanguage' = language
    /\ UNCHANGED <<language, code, fileReads, scanValidating>>
    /\ UNCHANGED <<scanResult, shownRequest>>
    /\ UNCHANGED <<remVars, bpVars, nCalls, badgeVars>>

----------------------------------------------------------------------------
(* Remediation workflow: one RemediationSection per AccordionItem *)

\* AccordionTrigger of item i, Accordion type="single" collapsible: the
\* clicked item opens, or closes when it was the open one; the section of
\* the item that was open is unmounted
ToggleItem(i) ==
    /\ Settled
    /\ i \in DOMAIN remState
    /\ openItem' = IF openItem = i THEN 0 ELSE i
    /\ remState' = [j \in DOMAIN remState |-> InitRem]
    /\ remCalls' = Unmount(remCalls, {openItem})
    /\ UNCHANGED <<formVars, scanVars, bpVars, toasts, nCalls, badgeVars>>

\* the arguments section i passes to handleRemediation, from its props
\* vulnerability={vuln}, language={form.getValues('language')},
\* code={form.getValues('code')} as of the page's last render
RemediationArgs(i) ==
    [codeSnippet |-> code,
     vulnerabilityDescription |-> Findings(scanResult)[i].description,
     language |-> renderedLanguage]

\* onGetRemediation of the mounted section i (Button disabled={isLoading});
\* throws: handleRemediation raises before it returns a promise
onGetRemediation(i, throws) ==
    /\ Settled
    /\ Mounted(i)
    /\ ~remState[i].isLoading
    /\ CanInvoke
    /\ nCalls' = nCalls + 1
    /\ IF throws
       THEN /\ toasts' = Publish(toasts, RemediationFailedTitle)
            /\ remState' = [remState EXCEPT ![i] =
                               [isLoading |-> FALSE, suggestion |-> NULL]]
            /\ UNCHANGED remCalls
       ELSE /\ remState' = [remState EXCEPT ![i] =
                               [isLoading |-> TRUE, suggestion |-> NULL]]
            /\ remCalls' = Append(remCalls,
                   [idx |-> i, live |-> TRUE, args |-> Some(RemediationArgs(i))])
            /\ UNCHANGED toasts
    /\ UNCHANGED openItem
    /\ UNCHANGED <<formVars, scanVars, bpVars, badgeVars>>

\* await handleRemediation(...) resolves: setSuggestion, then finally; the
\* setters reach the section only while the instance that called is mounted
RemediationSuccess(k, text) ==
    /\ Settled
    /\ k \in DOMAIN remCalls
    /\ remCalls' = Remove(remCalls, k)
    /\ remState' = IF remCalls[k].live
                   THEN [remState EXCEPT ![remCalls[k].idx] =
                           [isLoading |-> FALSE, suggestion |-> text]]
                   ELSE remState
    /\ UNCHANGED openItem
    /\ UNCHANGED <<formVars, scanVars, bpVars, toasts, nCalls, badgeVars>>

\* RemediationFailure whose catch also resets the page's scanResult
RemediationFailureClearsScan(k) ==
    /\ Settled
    /\ k \in DOMAIN remCalls
    /\ toasts' = Publish(toasts, RemediationFailedTitle)
    /\ scanResult' = None
    /\ shownRequest' = None
    /\ openItem' = 0
    /\ remState' = << >>
    /\ remCalls' = Unmount(Remove(remCalls, k), DOMAIN remState)
    /\ UNCHANGED <<isLoading, scanValidating, scanCalls>>
    /\ UNCHANGED <<formVars, bpVars, nCalls, badgeVars>>

\* await handleRemediation(...) rejects: catch (toast is the page's, so it
\* publishes whatever became of the section), then finally
RemediationFailure(k) ==
    /\ Settled
    /\ k \in DOMAIN remCalls
    /\ remCalls' = Remove(remCalls, k)
    /\ toasts' = Publish(toasts, RemediationFailedTitle)
    /\ remState' = IF remCalls[k].live
                   THEN [remState EXCEPT ![remCalls[k].idx].isLoading = FALSE]
                   ELSE remState
    /\ UNCHANGED openItem
    /\ UNCHANGED <<formVars, scanVars, bpVars, nCalls, badgeVars>>

----------------------------------------------------------------------------
(* Best-practices workflow *)

\* Select onValueChange={field.onChange} of the best-practices form
SelectBpLanguage(lang) ==
    /\ Settled
    /\ bpLanguage' = lang
    /\ UNCHANGED <<bpIsLoading, bestPractices, bpValidating, bpCalls>>
    /\ UNCHANGED <<formVars, scanVars, remVars, toasts, nCalls, badgeVars>>

\* <form onSubmit={form.handleSubmit(onSubmit)}>, Button disabled={isLoading}
SubmitBestPractices(times) ==
    /\ Settled
    /\ ~bpIsLoading
    /\ nCalls + times <= MaxCalls
    /\ bpValidating' = [n \in 1..times |-> [language |-> bpLanguage]]
    /\ UNCHANGED <<bpLanguage, bpIsLoading, bestPractices, bpCalls>>
    /\ UNCHANGED <<formVars, scanVars, remVars, toasts, nCalls, badgeVars>>

\* BestPracticesSection.onSubmit(values); throws as in onSubmit
bpOnSubmit(values, throws) ==
    /\ nCalls' = nCalls + 1
    /\ bestPractices' = NULL
    /\ IF throws
       THEN /\ toasts' = Publish(toasts, BestPracticesFailedTitle)
            /\ bpIsLoading' = FALSE
            /\ UNCHANGED bpCalls
       ELSE /\ bpIsLoading' = TRUE
            /\ bpCalls' = Append(bpCalls, [language |-> values.language])
            /\ UNCHANGED toasts

\* the resolver of the oldest best-practices submit event settles
BpResolved(throws) ==
    /\ bpValidating # << >>
    /\ bpValidating' = Tail(bpValidating)
    /\ IF bestPracticesFormSchema(Head(bpValidating))
       THEN bpOnSubmit(Head(bpValidating), throws)
       ELSE /\ throws = FALSE
            /\ UNCHANGED <<bpIsLoading, bestPractices, bpCalls>>
            /\ UNCHANGED <<toasts, nCalls>>
    /\ UNCHANGED bpLanguage
    /\ UNCHANGED <<formVars, scanVars, remVars, badgeVars>>

\* await handleBestPractices(values) resolves
BpSuccess(k, html) ==
    /\ Settled
    /\ k \in DOMAIN bpCalls
    /\ bpCalls' = Remove(bpCalls, k)
    /\ bestPractices' = html
    /\ bpIsLoading' = FALSE
    /\ UNCHANGED <<bpLanguage, bpValidating>>
    /\ UNCHANGED <<formVars, scanVars, remVars, toasts, nCalls, badgeVars>>

\* await handleBestPractices(values) rejects: catch, then finally
BpFailure(k) ==
    /\ Settled
    /\ k \in DOMAIN bpCalls
    /\ bpCalls' = Remove(bpCalls, k)
    /\ toasts' = Publish(toasts, BestPracticesFailedTitle)
    /\ bpIsLoading' = FALSE
    /\ UNCHANGED <<bpLanguage, bestPractices, bpValidating>>
    /\ UNCHANGED <<formVars, scanVars, remVars, nCalls, badgeVars>>

----------------------------------------------------------------------------
(* The page *)

Next ==
    \/ \E lang \in supportedLanguages : SelectLanguage(lang)
    \/ PageRender
    \/ \E text \in Texts : EditCode(text)
    \/ ClearCode
    \/ \E file \in Files : handleFileChange(file)
    \/ \E file \in Files : ReaderOnLoad(file)
    \/ \E times \in Dispatches : SubmitScan(times)
    \/ \E throws \in BOOLEAN : ScanResolved(throws)
    \/ \E k \in 1..MaxCalls, result \in Responses : ScanSuccess(k, result)
    \/ \E k \in 1..MaxCalls : ScanFailure(k)
    \/ \E i \in 1..MaxFindings : ToggleItem(i)
    \/ \E i \in 1..MaxFindings, throws \in BOOLEAN : onGetRemediation(i, throws)
    \/ \E k \in 1..MaxCalls, text \in Suggestions :
           RemediationSuccess(k, text)
    \/ \E k \in 1..MaxCalls : RemediationFailure(k)
    \/ \E lang \in supportedLanguages : SelectBpLanguage(lang)
    \/ \E times \in Dispatches : SubmitBestPractices(times)
    \/ \E throws \in BOOLEAN : BpResolved(throws)
    \/ \E k \in 1..MaxCalls, html \in Practices : BpSuccess(k, html)
    \/ \E k \in 1..MaxCalls : BpFailure(k)

Spec == Init /\ [][Next]_vars

\* the gateway answers every call, and every resolver settles
ScanSettles ==
    \E k \in 1..MaxCalls :
        (\E result \in Responses : ScanSuccess(k, result)) \/ ScanFailure(k)

RemediationSettles ==
    \E k \in 1..MaxCalls :
        (\E text \in Suggestions : RemediationSuccess(k, text))
            \/ RemediationFailure(k)

BpSettles ==
    \E k \in 1..MaxCalls :
        (\E html \in Practices : BpSuccess(k, html)) \/ BpFailure(k)

\* a response is a task of the event loop: it is taken once the resolvers'
\* microtasks, which can delay it again and again, have run
FairSpec ==
    /\ Spec
    /\ WF_vars(\E throws \in BOOLEAN : ScanResolved(throws))
    /\ WF_vars(\E throws \in BOOLEAN : BpResolved(throws))
    /\ SF_vars(ScanSettles)
    /\ SF_vars(RemediationSettles)
    /\ SF_vars(BpSettles)

----------------------------------------------------------------------------
(* The scan form alone, with code texts on both sides of the limits *)

NextScan ==
    \/ \E lang \in supportedLanguages : SelectLanguage(lang)
    \/ PageRender
    \/ \E text \in Texts \cup BoundaryTexts : EditCode(text)
    \/ ClearCode
    \/ \E file \in BoundaryTexts : handleFileChange(file)
    \/ \E file \in BoundaryTexts : ReaderOnLoad(file)
    \/ \E times \in Dispatches : SubmitScan(times)
    \/ \E throws \in BOOLEAN : ScanResolved(throws)
    \/ \E k \in 1..MaxCalls, result \in Responses : ScanSuccess(k, result)
    \/ \E k \in 1..MaxCalls : ScanFailure(k)

SpecScan == Init /\ [][NextScan]_vars

----------------------------------------------------------------------------
(* getBadgeVariant *)

UpperCase == <<"A", "B", "C", "D", "E", "F", "G", "H", "I", "J", "K", "L", "M",
               "N", "O", "P", "Q", "R", "S", "T", "U", "V", "W", "X", "Y", "Z">>
LowerCase == <<"a", "b", "c", "d", "e", "f", "g", "h", "i", "j", "k", "l", "m",
               "n", "o", "p", "q", "r", "s", "t", "u", "v", "w", "x", "y", "z">>

\* String.prototype.toLowerCase
toLowerCase(str) ==
    [k \in DOMAIN str |->
        IF \E n \in DOMAIN UpperCase : UpperCase[n] = str[k]
        THEN LowerCase[CHOOSE n \in DOMAIN UpperCase : UpperCase[n] = str[k]]
        ELSE str[k]]

\* str.startsWith(search, position), positions counted from 0
StartsWithAt(str, search, position) ==
    /\ position + Len(search) <= Len(str)
    /\ \A k \in 1..Len(search) : str[position + k] = search[k]

RECURSIVE IncludesFrom(_, _, _)
\* the scan of String.prototype.includes from `position` on
IncludesFrom(str, search, position) ==
    IF position + Len(search) > Len(str) THEN FALSE
    ELSE IF StartsWithAt(str, search, position) THEN TRUE
    ELSE IncludesFrom(str, search, position + 1)

\* String.prototype.includes
includes(str, search) == IncludesFrom(str, search, 0)

High == <<"h", "i", "g", "h">>
Critical == <<"c", "r", "i", "t", "i", "c", "a", "l">>
Medium == <<"m", "e", "d", "i", "u", "m">>
Low == <<"l", "o", "w">>

\* getBadgeVariant with the "medium" rule tried first
getBadgeVariantMediumFirst(sev) ==
    LET lowerSeverity == toLowerCase(sev) IN
    IF includes(lowerSeverity, Medium) THEN "secondary"
    ELSE IF includes(lowerSeverity, High) \/ includes(lowerSeverity, Critical)
    THEN "destructive"
    ELSE IF includes(lowerSeverity, Low) THEN "outline"
    ELSE "default"

\* getBadgeVariant: the first rule that applies gives the variant
getBadgeVariant(sev) ==
    LET lowerSeverity == toLowerCase(sev) IN
    IF includes(lowerSeverity, High) \/ includes(lowerSeverity, Critical)
    THEN "destructive"
    ELSE IF includes(lowerSeverity, Medium) THEN "secondary"
    ELSE IF includes(lowerSeverity, Low) THEN "outline"
    ELSE "default"

\* scanResult.vulnerabilities.map((vuln, index) => <AccordionItem ...>): the
\* panels of the results card, first to last
Panels ==
    [i \in 1..Len(Findings(scanResult)) |->
        [description |-> Findings(scanResult)[i].description,
         severity |-> Findings(scanResult)[i].severity]]

\* <Badge variant={getBadgeVariant(vuln.severity)}> of panel i
PanelVariant(i) == getBadgeVariant(Panels[i].severity)

\* severity strings are made of at most this many pieces
MaxPieces == 2

\* pieces of severity strings: the four keywords in several cases, parts
\* of them that join into a keyword, and text with no keyword
Pieces ==
    { <<"h", "i", "g", "h">>, <<"H", "I", "G", "H">>, <<"H", "i", "g", "h">>,
      <<"C", "r", "i", "t", "i", "c", "a", "l">>,
      <<"m", "e", "d", "i", "u", "m">>, <<"M", "E", "D", "I", "U", "M">>,
      <<"l", "o", "w">>, <<"L", "o", "w">>,
      <<"h", "i">>, <<"G", "H">>, <<"l", "O">>, <<"w">>,
      <<"m", "e", "d">>, <<"i", "u", "m">>,
      <<"i", "n", "f", "o">>, <<" ", "-", " ">> }

RECURSIVE Concat(_)
Concat(pieces) ==
    IF pieces = << >> THEN << >>
    ELSE Head(pieces) \o Concat(Tail(pieces))

SeverityInputs ==
    { Concat(ps) : ps \in UNION { [1..n -> Pieces] : n \in 0..MaxPieces } }

InitBadge ==
    /\ language = EmptyString
    /\ code = EmptyText
    /\ renderedLanguage = EmptyString
    /\ isLoading = FALSE
    /\ scanResult = None
    /\ scanValidating = << >>
    /\ scanCalls = << >>
    /\ fileReads = {}
    /\ openItem = 0
    /\ remState = << >>
    /\ remCalls = << >>
    /\ bpLanguage = EmptyString
    /\ bpIsLoading = FALSE
    /\ bestPractices = NULL
    /\ bpValidating = << >>
    /\ bpCalls = << >>
    /\ toasts = [count |-> 0, last |-> NoTitle]
    /\ nCalls = 0
    /\ shownRequest = None
    /\ severity \in SeverityInputs
    /\ badge = "none"

\* <Badge variant={getBadgeVariant(vuln.severity)}>
RenderBadge ==
    /\ badge = "none"
    /\ badge' = getBadgeVariant(severity)
    /\ UNCHANGED severity
    /\ UNCHANGED <<formVars, scanVars, remVars, bpVars, toasts, nCalls>>

NextBadge == RenderBadge

SpecBadge == InitBadge /\ [][NextBadge]_vars

----------------------------------------------------------------------------
(* Properties *)

\* a step in which the oldest scan submit event's resolver settles
ScanResolves ==
    scanValidating # << >> /\ scanValidating' = Tail(scanValidating)

\* a step in which the oldest best-practices submit event's resolver settles
BpResolves ==
    bpValidating # << >> /\ bpValidating' = Tail(bpValidating)

\* C1: a scan submission whose code has fewer than 20 or more than 8000
\* characters never invokes handleVulnerabilityScan and leaves isLoading and
\* scanResult as they were, whatever the language; a code of exactly 20 or
\* exactly 8000 characters (with a language selected) is passed on.
C1_CodeLengthGate ==
    [][ScanResolves =>
         LET values == Head(scanValidating) IN
         /\ (values.code.len < 20 \/ values.code.len > 8000) =>
                /\ nCalls' = nCalls
                /\ scanCalls' = scanCalls
                /\ isLoading' = isLoading
                /\ scanResult' = scanResult
         /\ (values.code.len \in {20, 8000} /\ values.language # << >>) =>
                nCalls' = nCalls + 1]_vars

\* C1 witness: a submission with a language and a code of 8001 characters is
\* with the resolver while an earlier scan's findings are displayed
C1_Witness ==
    /\ scanValidating # << >>
    /\ Head(scanValidating).code.len = 8001
    /\ Head(scanValidating).language # << >>
    /\ HasFindings(scanResult)

\* C2: a submission with no language selected, of the scan form or of the
\* best-practices form, invokes neither handleVulnerabilityScan nor
\* handleBestPractices.
C2_EmptyLanguageGate ==
    [][/\ (ScanResolves /\ Head(scanValidating).language = << >>) =>
              (nCalls' = nCalls /\ scanCalls' = scanCalls /\ bpCalls' = bpCalls)
       /\ (BpResolves /\ Head(bpValidating).language = << >>) =>
              (nCalls' = nCalls /\ scanCalls' = scanCalls /\ bpCalls' = bpCalls)
      ]_vars

\* C2 witness: the best-practices form was submitted with no language
\* selected while the scan form holds a code of valid length and no language
C2_Witness ==
    /\ bpValidating # << >>
    /\ Head(bpValidating).language = << >>
    /\ language = << >>
    /\ code.len = 20

\* C3 (as claimed): every remediation call awaited for a finding of the
\* displayed scan result carries the language and the code of the scan
\* request that produced that result.
C3_RemediationCarriesScanRequest ==
    \A k \in DOMAIN remCalls :
        remCalls[k].live =>
            /\ shownRequest # None
            /\ Get(remCalls[k].args).codeSnippet = Get(shownRequest).code
            /\ Get(remCalls[k].args).language = Get(shownRequest).language

\* C4 (as claimed): while calls for two different findings are awaited, a
\* call that resolves leaves its own finding displaying a suggestion with
\* the loading flag cleared, and every other finding's section as it was.
C4_ConcurrentRemediationsIndependent ==
    [][\A k \in DOMAIN remCalls :
          ( /\ \E j \in DOMAIN remCalls : remCalls[j].idx # remCalls[k].idx
            /\ remCalls' = Remove(remCalls, k)
            /\ toasts' = toasts
            /\ scanResult' = scanResult )
          => /\ remCalls[k].idx \in DOMAIN remState'
             /\ remState'[remCalls[k].idx].suggestion \in Suggestions
             /\ remState'[remCalls[k].idx].isLoading = FALSE
             /\ \A i \in DOMAIN remState \ {remCalls[k].idx} :
                    remState'[i] = remState[i]]_vars

\* C5 (as claimed): when a gateway call of scan, remediation or best
\* practices fails, language and code are unchanged, exactly one error
\* notification is published, and the workflow's own result is absent.
C5_FailureLeavesFormAndClearsResult ==
    [][/\ \A k \in DOMAIN scanCalls : ScanFailure(k) =>
              /\ language' = language /\ code' = code
              /\ toasts' = [count |-> toasts.count + 1, last |-> ScanFailedTitle]
              /\ scanResult' = None
       /\ \A k \in DOMAIN bpCalls : BpFailure(k) =>
              /\ language' = language /\ code' = code
              /\ bpLanguage' = bpLanguage
              /\ toasts' = [count |-> toasts.count + 1,
                            last |-> BestPracticesFailedTitle]
              /\ bestPractices' = NULL
       /\ \A k \in DOMAIN remCalls : RemediationFailure(k) =>
              /\ language' = language /\ code' = code
              /\ toasts' = [count |-> toasts.count + 1,
                            last |-> RemediationFailedTitle]
              /\ remCalls[k].live =>
                     remState'[remCalls[k].idx].suggestion = NULL
      ]_vars

\* the RemediationSection of finding i shows its loading state
RemLoading(i) == i \in DOMAIN remState /\ remState[i].isLoading

\* C6: in each workflow a loading flag that is true is eventually false
\* again, and it is true only while a call of that workflow (for a
\* remediation: of that mounted section) is awaited, so neither a failure
\* nor a synchronous throw leaves it set.
C6_LoadingFlagsReset ==
    /\ [](isLoading => scanCalls # << >>)
    /\ [](bpIsLoading => bpCalls # << >>)
    /\ [](\A i \in 1..MaxFindings :
             RemLoading(i) =>
                \E k \in DOMAIN remCalls :
                    remCalls[k].idx = i /\ remCalls[k].live)
    /\ (isLoading ~> ~isLoading)
    /\ (bpIsLoading ~> ~bpIsLoading)
    /\ \A i \in 1..MaxFindings : (RemLoading(i) ~> ~RemLoading(i))

\* C6 witness: after a scan call failed, the scan is loading again and so
\* are the best practices
C6_Witness ==
    /\ isLoading
    /\ bpIsLoading
    /\ toasts.last = ScanFailedTitle

\* C7: a scan that succeeds with N findings leaves exactly N panels, in the
\* order of the response, and publishes the "no vulnerabilities found"
\* notification exactly when N = 0.
C7_PanelsFollowResponse ==
    [][Len(scanCalls') < Len(scanCalls) =>
       \A k \in DOMAIN scanCalls, result \in Responses :
          ScanSuccess(k, result) =>
             /\ Len(Panels') = Len(result)
             /\ \A i \in 1..Len(result) :
                    /\ Panels'[i].description = result[i].description
                    /\ Panels'[i].severity = result[i].severity
             /\ IF Len(result) = 0
                THEN toasts' = [count |-> toasts.count + 1,
                                last |-> ScanCompleteTitle]
                ELSE toasts' = toasts]_vars

\* C7 witness: two different findings are displayed, in an order, with no
\* notification published
C7_Witness ==
    /\ Len(Panels) = 2
    /\ Panels[1].description # Panels[2].description
    /\ toasts.count = 0
    /\ ~isLoading

\* `keyword` occurs in `str`
Occurs(keyword, str) ==
    \E first \in 1..Len(str) :
        /\ first + Len(keyword) - 1 <= Len(str)
        /\ SubSeq(str, first, first + Len(keyword) - 1) = keyword

\* C8: getBadgeVariant maps a severity, case-insensitively and by the first
\* rule that applies, to 'destructive' when it contains "high" or
\* "critical", else 'secondary' when it contains "medium", else 'outline'
\* when it contains "low", else 'default'.
C8_BadgeVariant ==
    badge # "none" =>
        LET lower == toLowerCase(severity) IN
        badge = IF Occurs(High, lower) \/ Occurs(Critical, lower)
                THEN "destructive"
                ELSE IF Occurs(Medium, lower) THEN "secondary"
                ELSE IF Occurs(Low, lower) THEN "outline"
                ELSE "default"

\* C8 witness: a severity holding "medium" and, in capitals, "HIGH" was
\* given the destructive variant
C8_Witness ==
    /\ severity = <<"m", "e", "d", "i", "u", "m", "H", "I", "G", "H">>
    /\ badge = "destructive"

\* C9: when a file has been read, code is that file's text, whatever its
\* size and whatever code held before, and language, scanResult and
\* isLoading are as they were.
C9_UploadReplacesCode ==
    [][\A file \in Files :
          ReaderOnLoad(file) =>
             /\ code' = file
             /\ language' = language
             /\ scanResult' = scanResult
             /\ isLoading' = isLoading]_vars

\* C9 witness: a file of 8001 characters is being read while the field
\* holds another text and a scan is loading
C9_Witness ==
    /\ [len |-> 8001, id |-> 1] \in fileReads
    /\ code.len = 20
    /\ isLoading

\* C10 (as claimed): at most one scan gateway call is in flight.
C10_AtMostOneScanInFlight ==
    Len(scanCalls) <= 1

\* C11 (as claimed): while a scan gateway call is pending no scan result is
\* displayed, and while a best-practices call is pending no best practices
\* are displayed (the page holds one result of each kind at most: scanResult
\* and bestPractices are single values).
C11_NoResultWhilePending ==
    /\ scanCalls # << >> => scanResult = None
    /\ bpCalls # << >> => bestPractices = NULL

\* C13 (as claimed): when a scan response replaces the displayed result, no
\* panel of the new result shows a suggestion or a loading flag, and no
\* remediation call awaited by a mounted section is left, so that nothing
\* requested for a finding of an earlier result can appear under a finding
\* of the new one.
C13_NoSuggestionFromEarlierResult ==
    [][Len(scanCalls') < Len(scanCalls) =>
       \A k \in DOMAIN scanCalls, result \in Responses :
          ScanSuccess(k, result) =>
             /\ \A i \in DOMAIN remState' : remState'[i] = InitRem
             /\ \A j \in DOMAIN remCalls' : ~remCalls'[j].live]_vars

\* a step of the scan workflow: onSubmit runs, or its call settles
ScanStep ==
    \/ ScanResolves /\ nCalls' = nCalls + 1
    \/ Len(scanCalls') < Len(scanCalls)

\* a step of the best-practices workflow
BpStep ==
    \/ BpResolves /\ nCalls' = nCalls + 1
    \/ Len(bpCalls') < Len(bpCalls)

\* C12: a step of the scan workflow leaves the best practices' loading flag
\* and result, and the section of every finding that stays displayed, as
\* they were; a step of the best-practices workflow leaves the scan's and
\* every finding's; a step of a finding's remediation (start, success or
\* failure) leaves the scan's, the best practices' and every other
\* finding's.  Each submit control is disabled by its own loading flag only.
C12_WorkflowsDoNotInterfere ==
    /\ [][/\ ScanStep =>
              /\ bpIsLoading' = bpIsLoading
              /\ bestPractices' = bestPractices
              /\ \A i \in DOMAIN remState \cap DOMAIN remState' :
                     remState'[i] = remState[i]
          /\ BpStep =>
              /\ isLoading' = isLoading
              /\ scanResult' = scanResult
              /\ remState' = remState
          /\ \A i \in DOMAIN remState, throws \in BOOLEAN :
                onGetRemediation(i, throws) =>
                   /\ isLoading' = isLoading /\ scanResult' = scanResult
                   /\ bpIsLoading' = bpIsLoading
                   /\ bestPractices' = bestPractices
                   /\ \A j \in DOMAIN remState \ {i} :
                          remState'[j] = remState[j]
          /\ \A k \in DOMAIN remCalls :
                ( \/ \E text \in Suggestions : RemediationSuccess(k, text)
                  \/ RemediationFailure(k) ) =>
                   /\ isLoading' = isLoading /\ scanResult' = scanResult
                   /\ bpIsLoading' = bpIsLoading
                   /\ bestPractices' = bestPractices
                   /\ DOMAIN remState' = DOMAIN remState
                   /\ \A j \in DOMAIN remState \ {remCalls[k].idx} :
                          remState'[j] = remState[j]
         ]_vars
    /\ []((Settled /\ CanInvoke /\ ~isLoading) => ENABLED SubmitScan(1))
    /\ []((Settled /\ CanInvoke /\ ~bpIsLoading) =>
              ENABLED SubmitBestPractices(1))
    /\ [](\A i \in 1..MaxFindings :
             (Settled /\ CanInvoke /\ Mounted(i) /\ ~remState[i].isLoading) =>
                 ENABLED onGetRemediation(i, FALSE))

\* C12 witness: a remediation call has failed with the findings still
\* displayed, while the best-practices call is pending
C12_Witness ==
    /\ toasts.last = RemediationFailedTitle
    /\ HasFindings(scanResult)
    /\ bpIsLoading

====
